---- MODULE Spec2Model ----
(***************************************************************************)
(* A model of report.py (CSV_CTS): cli() reads the configuration, the      *)
(* start-date file and the per-subject data files, normalises the          *)
(* responses, removes duplicated (id, date) keys, aligns every record to   *)
(* its subject's start date, keeps the records inside the day window,      *)
(* pivots them to one row per subject and writes the result table.         *)
(*                                                                         *)
(* Text is a sequence of one-character strings, so that lower(), strip(),  *)
(* upper() and the formatting of day labels are computed and not assumed.  *)
(* A calendar date is the number of its day; a Timedelta is a number of    *)
(* days (the date formats of the data carry no time of day).               *)
(***************************************************************************)
EXTENDS Integers, Sequences, FiniteSets, TLC

\* ------------------------------------------------------------------ bounds
MaxDirs == 2
MaxRows == 2
MaxReg == 2

Ids == {1, 2}
Dates == {0, 1}
OffsetChoices == {-1, 0}
MaxDaysChoices == {1, 2}

\* ------------------------------------------------------------- null values
\* A missing cell of a text column; a missing date or Timedelta. A date or
\* Timedelta that is present is the one-element sequence of its day number.
NaN == <<"NaN">>
NaT == <<>>
\* A missing cell of a numeric column; a number that is present is the
\* one-element sequence holding it.
NoNumber == <<>>

\* -------------------------------------------------------------------- text
UpperChars == <<"B", "E", "N", "O", "S", "X", "Y">>
LowerChars == <<"b", "e", "n", "o", "s", "x", "y">>

\* str.lower() on one character
LowerCh(c) ==
  IF \E i \in 1..Len(UpperChars) : UpperChars[i] = c
  THEN LowerChars[CHOOSE i \in 1..Len(UpperChars) : UpperChars[i] = c]
  ELSE c

\* str.upper() on one character
UpperCh(c) ==
  IF \E i \in 1..Len(LowerChars) : LowerChars[i] = c
  THEN UpperChars[CHOOSE i \in 1..Len(LowerChars) : LowerChars[i] = c]
  ELSE c

Lower(s) == [i \in 1..Len(s) |-> LowerCh(s[i])]
Upper(s) == [i \in 1..Len(s) |-> UpperCh(s[i])]

\* str.strip(): leading and trailing blanks removed
Strip(s) ==
  LET inked == {i \in 1..Len(s) : s[i] # " "}
  IN IF inked = {} THEN <<>>
     ELSE LET lo == CHOOSE i \in inked : \A j \in inked : i <= j
              hi == CHOOSE i \in inked : \A j \in inked : j <= i
          IN SubSeq(s, lo, hi)

Digits == <<"0", "1", "2", "3", "4", "5", "6", "7", "8", "9">>

RECURSIVE StrNat(_)
StrNat(n) ==
  IF n < 10 THEN <<Digits[n + 1]>>
  ELSE StrNat(n \div 10) \o <<Digits[(n % 10) + 1]>>

\* str(n) of an integer
Str(n) == IF n < 0 THEN <<"-">> \o StrNat(0 - n) ELSE StrNat(n)

RECURSIVE Zeros(_)
Zeros(k) == IF k <= 0 THEN <<>> ELSE <<"0">> \o Zeros(k - 1)

\* '{:0{prec}d}'.format(x, prec=prec) for x >= 0
ZeroPad(x, prec) == Zeros(prec - Len(StrNat(x))) \o StrNat(x)

\* 'Day{:0{prec}d}'.format(x, prec=len(str(max_days)))
DayLabel(x, max_days) == <<"D", "a", "y">> \o ZeroPad(x, Len(Str(max_days)))

\* 'Total_%s' % v
TotalName(v) == <<"T", "o", "t", "a", "l", "_">> \o v

\* --------------------------------------------------------- generic helpers
Range(f) == {f[x] : x \in DOMAIN f}

SelectIdx(s, keep(_)) ==
  LET F[i \in 0..Len(s)] ==
        IF i = 0 THEN <<>>
        ELSE IF keep(i) THEN Append(F[i - 1], s[i]) ELSE F[i - 1]
  IN F[Len(s)]

RECURSIVE Flatten(_)
Flatten(ss) == IF ss = <<>> THEN <<>> ELSE Head(ss) \o Flatten(Tail(ss))

SetMin(S) == CHOOSE m \in S : \A x \in S : m <= x
SetMax(S) == CHOOSE m \in S : \A x \in S : x <= m

RECURSIVE SortedSeq(_)
SortedSeq(S) ==
  IF S = {} THEN <<>>
  ELSE <<SetMin(S)>> \o SortedSeq(S \ {SetMin(S)})

SeqsUpTo(S, n) == UNION {[1..k -> S] : k \in 0..n}

\* ------------------------------------------------------------------ inputs
\* The [responses] section: raw code (lower-cased key) -> canonical code.
VocabShort == (<<"y">> :> <<"Y">>) @@ (<<"n">> :> <<"N">>)
VocabLong == (<<"y">> :> <<"Y", "e", "s">>) @@ (<<"n">> :> <<"N", "o">>)
VocabReserved == (<<"y">> :> <<"Y">>) @@ (<<"b">> :> <<"N">>)

\* The [response_names] section: key (lower-cased by the INI parser) -> name.
NamesShort ==
  (<<"y">> :> <<"Y", "e", "s">>) @@ (<<"n">> :> <<"N", "o">>)
  @@ (<<"b">> :> <<"B", "l", "a", "n", "k">>)
NamesLong ==
  (<<"y", "e", "s">> :> <<"Y", "e", "s">>) @@ (<<"n", "o">> :> <<"N", "o">>)
  @@ (<<"b">> :> <<"B", "l", "a", "n", "k">>)

Sections ==
  { [responses |-> VocabShort, response_names |-> NamesShort],
    [responses |-> VocabLong, response_names |-> NamesLong],
    [responses |-> VocabReserved, response_names |-> NamesShort] }

ConfigFiles ==
  { [responses |-> s.responses, response_names |-> s.response_names,
     offset_days |-> o, max_days |-> m] :
      s \in Sections, o \in OffsetChoices, m \in MaxDaysChoices }

\* Response cells of a data file: empty, " Y ", "x".
RawResponses == {NaN, <<" ", "Y", " ">>, <<"x">>}

FileRows == [id : Ids, date : Dates, response : RawResponses]
\* A file is its rows, or does not parse (a bad column, a bad date).
FileContents ==
  {f \in [parses : BOOLEAN, rows : SeqsUpTo(FileRows, MaxRows)] :
     f.parses \/ f.rows = <<>>}

RegistryRows == [id : Ids, date_one : Dates]
RegistryFiles ==
  {f \in [parses : BOOLEAN, rows : SeqsUpTo(RegistryRows, MaxReg)] :
     f.parses \/ f.rows = <<>>}

\* One entry per subdirectory: the number of its files matching the mask.
DirListings == SeqsUpTo({0, 1}, MaxDirs)

\* -------------------------------------------------------- log (logging.*)
Warn(msg, args) == [level |-> "WARNING", msg |-> msg, args |-> args]
Error(msg, args) == [level |-> "ERROR", msg |-> msg, args |-> args]

\* ------------------------------------------------------------------ readers
\* A reader that keeps, of the rows with the same id, only the last one.
read_date_ones_last_wins(content) ==
  IF ~content.parses
  THEN [ok |-> FALSE, data |-> <<>>]
  ELSE LET rows == SelectIdx(content.rows,
                             LAMBDA i : \A j \in (i + 1)..Len(content.rows) :
                                          content.rows[j].id # content.rows[i].id)
       IN [ok |-> TRUE,
           data |-> [i \in 1..Len(rows) |->
                       [id |-> rows[i].id, date_one |-> <<rows[i].date_one>>]]]

\* read_date_ones: every row of the file, indexed on the id column; the date
\* column is renamed date_one. An unreadable file raises.
read_date_ones(content) ==
  IF ~content.parses
  THEN [ok |-> FALSE, data |-> <<>>]
  ELSE [ok |-> TRUE,
        data |-> [i \in 1..Len(content.rows) |->
                    [id |-> content.rows[i].id,
                     date_one |-> <<content.rows[i].date_one>>]]]

\* read_datafile: the rows of one file indexed on (id, date), with the
\* warnings it logs. A file that does not parse raises ValueError/KeyError;
\* so does a file without rows (min() of no dates).
read_datafile(path, file) ==
  IF ~file.parses
  THEN [ok |-> FALSE, cause |-> "parse", data |-> <<>>, warnings |-> <<>>]
  ELSE IF file.rows = <<>>
  THEN [ok |-> FALSE, cause |-> "empty", data |-> <<>>, warnings |-> <<>>]
  ELSE
    LET content == file.rows
        ids == {content[i].id : i \in 1..Len(content)}
        dates == {content[i].date : i \in 1..Len(content)}
        date_range == SetMin(dates)..SetMax(dates)
        missing_dates == date_range \ dates
        w1 == IF Cardinality(ids) > 1
              THEN <<Warn("File contains multiple ids", <<path, ids>>)>>
              ELSE <<>>
        w2 == IF missing_dates # {}
              THEN <<Warn("File is missing dates",
                          <<path, SortedSeq(missing_dates)>>)>>
              ELSE <<>>
    IN [ok |-> TRUE, cause |-> "none", data |-> content,
        warnings |-> w1 \o w2]

\* find_files: the matching files one level below the directory, and one
\* warning per subdirectory without a match. A path is the subdirectory's
\* position in the listing.
find_files(listing) ==
  [paths |-> SelectIdx([i \in 1..Len(listing) |-> i],
                       LAMBDA i : listing[i] > 0),
   warnings |-> SelectIdx([i \in 1..Len(listing) |->
                              Warn("No matching file in directory", i)],
                          LAMBDA i : listing[i] = 0)]

\* ------------------------------------------------------ response normalizer
\* df.fillna('B')
FillNa(df) ==
  [i \in 1..Len(df) |->
     IF df[i].response = NaN THEN [df[i] EXCEPT !.response = <<"B">>]
     ELSE df[i]]

\* A cleaning step that lower-cases and does not strip.
LowerOnly(df) ==
  [i \in 1..Len(df) |-> [df[i] EXCEPT !.response = Lower(@)]]

\* df[response_col].apply(lambda x: x.lower().strip())
LowerStrip(df) ==
  [i \in 1..Len(df) |-> [df[i] EXCEPT !.response = Strip(Lower(@))]]

\* df[response_col].isin(responses) | df[response_col].isnull()
valid_response(row, responses) ==
  row.response \in responses \/ row.response = NaN

\* df[response_col].apply(lambda x: response_map[x])
MapCanonical(df, rmap) ==
  [i \in 1..Len(df) |-> [df[i] EXCEPT !.response = rmap[@]]]

\* df.index.duplicated(): the first row of a key is not marked.
duplicated_keep_first(df, i) ==
  \E j \in 1..(i - 1) : df[j].id = df[i].id /\ df[j].date = df[i].date

\* df.duplicated(False): rows equal in every column, not only in the key.
duplicated_whole_row(df, i) ==
  \E j \in 1..Len(df) : j # i /\ df[j] = df[i]

\* df.index.duplicated(False): every row whose (id, date) occurs twice
duplicated(df, i) ==
  \E j \in 1..Len(df) :
    j # i /\ df[j].id = df[i].id /\ df[j].date = df[i].date

\* -------------------------------------------------------------------- joins
\* An inner join on the id: a left row without a match is dropped.
RECURSIVE InnerJoin(_, _, _)
InnerJoin(left, right, nulls) ==
  IF left = <<>> THEN <<>>
  ELSE LET l == Head(left)
           matches == SelectIdx(right, LAMBDA j : right[j].id = l.id)
       IN [k \in 1..Len(matches) |-> l @@ matches[k]]
          \o InnerJoin(Tail(left), right, nulls)

\* A left join on the id: every left row once per matching right row, or
\* once with the null fields when no right row matches.
RECURSIVE LeftJoin(_, _, _)
LeftJoin(left, right, nulls) ==
  IF left = <<>> THEN <<>>
  ELSE LET l == Head(left)
           matches == SelectIdx(right, LAMBDA j : right[j].id = l.id)
           joined == IF matches = <<>> THEN <<l @@ nulls>>
                     ELSE [k \in 1..Len(matches) |-> l @@ matches[k]]
       IN joined \o LeftJoin(Tail(left), right, nulls)

IndexIsUnique(rows) ==
  \A i, j \in 1..Len(rows) : rows[i].id = rows[j].id => i = j

\* ------------------------------------------------------------------ aligner
\* delta = date - date_one - offset_days; undefined without a start date
Delta(row, offset) ==
  IF row.date_one = NaT THEN NaT
  ELSE <<row.date - row.date_one[1] - offset>>

WithDelta(df, offset) ==
  [i \in 1..Len(df) |-> df[i] @@ [delta |-> Delta(df[i], offset)]]

\* df['delta'] >= pd.Timedelta(days=0): false for an undefined delta
NotBeforeWindow(row) == row.delta # NaT /\ row.delta[1] >= 0

\* A window that also takes the day after its last day.
BeforeWindowEnd_Inclusive(row, max_days) ==
  row.delta # NaT /\ row.delta[1] <= max_days

\* df['delta'] < pd.Timedelta(days=max_days)
BeforeWindowEnd(row, max_days) == row.delta # NaT /\ row.delta[1] < max_days

WindowFilter(df, max_days) ==
  LET a == SelectIdx(df, LAMBDA i : NotBeforeWindow(df[i]))
  IN SelectIdx(a, LAMBDA i : BeforeWindowEnd(a[i], max_days))

\* x.days + 1
DayNumber(delta) == delta[1] + 1

WithDays(df, max_days) ==
  [i \in 1..Len(df) |->
     df[i] @@ [days |-> DayNumber(df[i].delta),
               pivot |-> DayLabel(DayNumber(df[i].delta), max_days)]]

\* ------------------------------------------------------ pivot & aggregates
IdsOf(df) == {df[i].id : i \in 1..Len(df)}

\* Two rows with the same (id, pivot label): DataFrame.pivot raises
\* "Index contains duplicate entries, cannot reshape".
PivotCollision(df) ==
  \E i, j \in 1..Len(df) :
    i # j /\ df[i].id = df[j].id /\ df[i].pivot = df[j].pivot

\* df.reset_index().pivot(index=id_col, values=response_col, columns='pivot')
Pivot(df) ==
  LET index == SortedSeq(IdsOf(df))
      columns == {df[i].pivot : i \in 1..Len(df)}
      cell(id, c) ==
        IF \E i \in 1..Len(df) : df[i].id = id /\ df[i].pivot = c
        THEN df[CHOOSE i \in 1..Len(df) :
                  df[i].id = id /\ df[i].pivot = c].response
        ELSE NaN
  IN [k \in 1..Len(index) |->
        [id |-> index[k], cells |-> [c \in columns |-> cell(index[k], c)]]]

\* df.groupby(level=0)['days'].min(), named First_Response
FirstDays(df) ==
  LET index == SortedSeq(IdsOf(df))
  IN [k \in 1..Len(index) |->
        [id |-> index[k],
         First_Response |->
           <<SetMin({df[i].days : i \in {j \in 1..Len(df) :
                                            df[j].id = index[k]}})>>]]

\* The canonical code whose first day First_Yes reports: the literal 'Y'.
YesCode == <<"Y">>

\* df[df[response_col] == 'Y'].groupby(level=0)['days'].min(), named First_Yes
FirstYes(df) ==
  LET yes == SelectIdx(df, LAMBDA i : df[i].response = YesCode)
      index == SortedSeq(IdsOf(yes))
  IN [k \in 1..Len(index) |->
        [id |-> index[k],
         First_Yes |->
           <<SetMin({yes[i].days : i \in {j \in 1..Len(yes) :
                                              yes[j].id = index[k]}})>>]]

\* (max delta - min delta).days + 1 per id, named Total_Period
TotalPeriod(df) ==
  LET index == SortedSeq(IdsOf(df))
      deltas(id) == {df[i].delta[1] : i \in {j \in 1..Len(df) : df[j].id = id}}
  IN [k \in 1..Len(index) |->
        [id |-> index[k],
         Total_Period |->
           <<SetMax(deltas(index[k])) - SetMin(deltas(index[k])) + 1>>]]

\* names = {k.upper(): 'Total_%s' % v for k, v in names.items()}
TotalNames(response_names) ==
  [c \in {Upper(k) : k \in DOMAIN response_names} |->
     TotalName(response_names[CHOOSE k \in DOMAIN response_names :
                                 Upper(k) = c])]

\* .rename(columns=names): a column without an entry keeps its name
RenameColumn(c, names) == IF c \in DOMAIN names THEN names[c] ELSE c

\* groupby(level=0)[response_col].value_counts() pivoted to one column per
\* code that occurs in df, .fillna(0).astype(int32), columns renamed
Tally(df, response_names) ==
  LET index == SortedSeq(IdsOf(df))
      codes == {df[i].response : i \in 1..Len(df)}
      names == TotalNames(response_names)
      count(id, c) ==
        Cardinality({i \in 1..Len(df) : df[i].id = id /\ df[i].response = c})
  IN [k \in 1..Len(index) |->
        [id |-> index[k],
         totals |->
           [col \in {RenameColumn(c, names) : c \in codes} |->
              count(index[k],
                    CHOOSE c \in codes : RenameColumn(c, names) = col)]]]

\* pivot.join(days).join(tally).join(first_days).join(first_yes)
ResultTable(df, response_names) ==
  LeftJoin(
    LeftJoin(
      LeftJoin(
        LeftJoin(Pivot(df), TotalPeriod(df), [Total_Period |-> NoNumber]),
        Tally(df, response_names), [totals |-> <<>>]),
      FirstDays(df), [First_Response |-> NoNumber]),
    FirstYes(df), [First_Yes |-> NoNumber])

\* -------------------------------------------------------------------- state
VARIABLES
  pc,            \* the statement cli() is at, "done" or "aborted"
  abort_at,      \* the statement whose exception ended the run, or "none"
  config,        \* offset_days, max_days and response_names as configured
  response_map,  \* raw code -> canonical code, with 'b' -> 'B' added
  date_map,      \* the start-date table
  data_files,    \* the paths still to read
  data_frames,   \* the frames read so far
  df,            \* the working table
  log,           \* the lines of the log file
  result,        \* the table written to the output file
  date_ones_csv  \* the start-date file as the run found it

vars == <<pc, abort_at, config, response_map, date_map, data_files,
          data_frames, df, log, result, date_ones_csv>>

NoConfig == [offset_days |-> 0, max_days |-> 0, response_names |-> <<>>]

Init ==
  /\ pc = "config"
  /\ abort_at = "none"
  /\ config = NoConfig
  /\ response_map = <<>>
  /\ date_map = <<>>
  /\ data_files = <<>>
  /\ data_frames = <<>>
  /\ df = <<>>
  /\ log = <<>>
  /\ result = <<>>
  /\ date_ones_csv = [parses |-> FALSE, rows |-> <<>>]

Abort(at) == pc' = "aborted" /\ abort_at' = at

\* cli(), lines 146-178 and 188: the configuration. A missing section or key
\* raises KeyError.
ReadConfigFails ==
  /\ pc = "config"
  /\ Abort("config")
  /\ UNCHANGED <<config, response_map, date_map, data_files, data_frames, df,
                 log, result, date_ones_csv>>

\* The reserved blank code must be free, then response_map['b'] = 'B'.
ReadConfig ==
  /\ pc = "config"
  /\ \E c \in ConfigFiles :
       IF <<"b">> \in DOMAIN c.responses \/ <<"B">> \in Range(c.responses)
       THEN /\ Abort("responses")
            /\ UNCHANGED <<config, response_map>>
       ELSE /\ response_map' = (<<"b">> :> <<"B">>) @@ c.responses
            /\ config' = [offset_days |-> c.offset_days,
                          max_days |-> c.max_days,
                          response_names |-> c.response_names]
            /\ pc' = "date_ones"
            /\ UNCHANGED abort_at
  /\ UNCHANGED <<date_map, data_files, data_frames, df, log, result,
                 date_ones_csv>>

\* cli(), lines 181-186
ReadDateOnes ==
  /\ pc = "date_ones"
  /\ \E content \in RegistryFiles :
       LET r == read_date_ones(content)
       IN /\ date_ones_csv' = content
          /\ IF r.ok
             THEN date_map' = r.data /\ pc' = "find_files"
                  /\ UNCHANGED abort_at
             ELSE Abort("date_ones") /\ UNCHANGED date_map
  /\ UNCHANGED <<config, response_map, data_files, data_frames, df, log,
                 result>>

\* cli(), line 191
FindFiles ==
  /\ pc = "find_files"
  /\ \E listing \in DirListings :
       LET r == find_files(listing)
       IN /\ data_files' = r.paths
          /\ log' = log \o r.warnings
  /\ pc' = "read"
  /\ UNCHANGED <<abort_at, config, response_map, date_map, data_frames, df,
                 result, date_ones_csv>>

RowsRead == Len(Flatten(data_frames))

\* cli(), lines 195-205: one pass of the loop over data_files
ReadDatafile ==
  /\ pc = "read"
  /\ data_files # <<>>
  /\ \E file \in FileContents :
       /\ RowsRead + Len(file.rows) <= MaxRows
       /\ LET data_file == Head(data_files)
              r == read_datafile(data_file, file)
          IN IF r.ok
             THEN /\ data_frames' =
                       Append(data_frames,
                              [i \in 1..Len(r.data) |->
                                 r.data[i] @@ [source_file |-> data_file]])
                  /\ log' = log \o r.warnings
             ELSE /\ log' = Append(log, Error("In file", <<data_file, r.cause>>))
                  /\ UNCHANGED data_frames
  /\ data_files' = Tail(data_files)
  /\ UNCHANGED <<pc, abort_at, config, response_map, date_map, df, result,
                 date_ones_csv>>

\* pd.concat(data_frames): raises ValueError on an empty list
concat(frames) ==
  IF frames = <<>> THEN [ok |-> FALSE, data |-> <<>>]
  ELSE [ok |-> TRUE, data |-> Flatten(frames)]

\* cli(), line 206
Concat ==
  /\ pc = "read"
  /\ data_files = <<>>
  /\ LET r == concat(data_frames)
     IN IF r.ok
        THEN df' = r.data /\ pc' = "normalize" /\ UNCHANGED abort_at
        ELSE Abort("concat") /\ UNCHANGED df
  /\ UNCHANGED <<config, response_map, date_map, data_files, data_frames, log,
                 result, date_ones_csv>>

\* cli(), lines 208-223
NormalizeResponses ==
  /\ pc = "normalize"
  /\ LET cleaned == LowerStrip(FillNa(df))
         responses == DOMAIN response_map
         valid(i) == valid_response(cleaned[i], responses)
         all_valid == \A i \in 1..Len(cleaned) : valid(i)
         kept == IF all_valid THEN cleaned ELSE SelectIdx(cleaned, valid)
     IN /\ log' = IF all_valid THEN log
                  ELSE Append(log,
                              Error("Removing invalid responses",
                                    SelectIdx(cleaned, LAMBDA i : ~valid(i))))
        /\ df' = MapCanonical(kept, response_map)
  /\ pc' = "duplicates"
  /\ UNCHANGED <<abort_at, config, response_map, date_map, data_files,
                 data_frames, result, date_ones_csv>>

\* cli(), lines 225-231
RemoveDuplicates ==
  /\ pc = "duplicates"
  /\ LET any == \E i \in 1..Len(df) : duplicated(df, i)
     IN IF any
        THEN /\ log' = Append(log,
                              Error("Removing duplicate rows",
                                    SelectIdx(df, LAMBDA i : duplicated(df, i))))
             /\ df' = SelectIdx(df, LAMBDA i : ~duplicated(df, i))
        ELSE UNCHANGED <<log, df>>
  /\ pc' = "join"
  /\ UNCHANGED <<abort_at, config, response_map, date_map, data_files,
                 data_frames, result, date_ones_csv>>

\* The second index level (the date) taken instead of the first (the id).
missing_starts_by_date(joined) ==
  {joined[i].date : i \in {j \in 1..Len(joined) : joined[j].date_one = NaT}}

\* set(df[df['date_one'].isnull()].index.get_level_values(0))
missing_starts(joined) ==
  {joined[i].id : i \in {j \in 1..Len(joined) : joined[j].date_one = NaT}}

\* cli(), lines 233-240. The join of the (id, date) index with a start-date
\* index that repeats an id raises NotImplementedError (pandas joins a level
\* of a MultiIndex only with a unique index); nothing catches it.
JoinDateMap ==
  /\ pc = "join"
  /\ IF ~IndexIsUnique(date_map)
     THEN /\ Abort("join")
          /\ UNCHANGED <<df, log>>
     ELSE LET joined == LeftJoin(df, date_map, [date_one |-> NaT])
              missing == missing_starts(joined)
          IN /\ df' = joined
             /\ log' = IF missing # {}
                       THEN Append(log, Warn("Missing start dates for ids",
                                             SortedSeq(missing)))
                       ELSE log
             /\ pc' = "window"
             /\ UNCHANGED abort_at
  /\ UNCHANGED <<config, response_map, date_map, data_files, data_frames,
                 result, date_ones_csv>>

\* cli(), lines 243-258
AlignAndFilter ==
  /\ pc = "window"
  /\ df' = WithDays(WindowFilter(WithDelta(df, config.offset_days),
                                 config.max_days),
                    config.max_days)
  /\ pc' = "pivot"
  /\ UNCHANGED <<abort_at, config, response_map, date_map, data_files,
                 data_frames, log, result, date_ones_csv>>

\* cli(), lines 261-301: pivot, aggregates, joins and the write. A pivot
\* collision raises ValueError. With no record left the outcome depends on
\* the pandas build: value_counts of an empty group-by raises, or an empty
\* table is written.
PivotAndWrite ==
  /\ pc = "pivot"
  /\ \/ /\ PivotCollision(df)
        /\ Abort("pivot")
        /\ UNCHANGED result
     \/ /\ ~PivotCollision(df)
        /\ df = <<>>
        /\ Abort("tally")
        /\ UNCHANGED result
     \/ /\ ~PivotCollision(df)
        /\ result' = ResultTable(df, config.response_names)
        /\ pc' = "done"
        /\ UNCHANGED abort_at
  /\ UNCHANGED <<config, response_map, date_map, data_files, data_frames, df,
                 log, date_ones_csv>>

Next ==
  \/ ReadConfigFails
  \/ ReadConfig
  \/ ReadDateOnes
  \/ FindFiles
  \/ ReadDatafile
  \/ Concat
  \/ NormalizeResponses
  \/ RemoveDuplicates
  \/ JoinDateMap
  \/ AlignAndFilter
  \/ PivotAndWrite

Spec == Init /\ [][Next]_vars

\* ------------------------------------------------------------------ claims
\* The rows read from the files that parsed, in the order of concatenation.
Concatenated == Flatten(data_frames)

SameKey(a, b) == a.id = b.id /\ a.date = b.date

\* A raw response that passes the validation of the normalizer.
InVocabulary(raw) ==
  raw = NaN \/ Strip(Lower(raw)) \in DOMAIN response_map

\* The canonical code of a raw response that passes.
Canonical(raw) ==
  IF raw = NaN THEN <<"B">> ELSE response_map[Strip(Lower(raw))]

LogEntries(msg) == SelectIdx(log, LAMBDA i : log[i].msg = msg)

RegisteredIds == {date_map[i].id : i \in 1..Len(date_map)}

\* C1: the window filter keeps a record with a known start date if and only
\* if 0 <= delta.days < max_days, where delta = date - start date -
\* offset_days, and every kept record gets day_number = delta.days + 1, which
\* lies in [1, max_days].
C1_WindowStep ==
  pc = "window" =>
    /\ \A i \in 1..Len(df) :
         df[i].date_one # NaT =>
           LET d == df[i].date - df[i].date_one[1] - config.offset_days
               same(t, j) == /\ t[j].id = df[i].id
                             /\ t[j].date = df[i].date
                             /\ t[j].date_one = df[i].date_one
                             /\ t[j].source_file = df[i].source_file
               before == Cardinality({j \in 1..Len(df) : same(df, j)})
               after == Cardinality({j \in 1..Len(df') : same(df', j)})
           IN after = IF 0 <= d /\ d < config.max_days THEN before ELSE 0
    /\ \A j \in 1..Len(df') :
         /\ df'[j].date_one # NaT
         /\ df'[j].days =
              df'[j].date - df'[j].date_one[1] - config.offset_days + 1
         /\ df'[j].days \in 1..config.max_days

C1_WindowFilter == [][C1_WindowStep]_vars

\* A run in which one of two valid, unduplicated records of registered
\* subjects was dropped by the window and the other, on the last day of the
\* window, was kept.
C1_Witness ==
  /\ pc = "pivot"
  /\ Len(Concatenated) = 2
  /\ LogEntries("Removing invalid responses") = <<>>
  /\ LogEntries("Removing duplicate rows") = <<>>
  /\ LogEntries("Missing start dates for ids") = <<>>
  /\ Len(df) = 1
  /\ df[1].delta = <<config.max_days - 1>>
  /\ df[1].days = config.max_days

\* C2: the table written has one row per subject id, and its ids are exactly
\* the ids of the records that survived normalization and the window filter.
C2_OneRowPerSubject ==
  pc = "done" =>
    /\ \A i, j \in 1..Len(result) : result[i].id = result[j].id => i = j
    /\ {result[i].id : i \in 1..Len(result)} = {df[i].id : i \in 1..Len(df)}

\* Two subjects written, one of them without any Yes.
C2_Witness ==
  /\ pc = "done"
  /\ Len(result) = 2
  /\ \E i \in 1..2 : result[i].First_Yes = NoNumber
  /\ \E i \in 1..2 : result[i].First_Yes # NoNumber

\* C3 as claimed: a key that occurs in more than one concatenated row,
\* whatever the responses, has no row in the normalized set handed to the
\* start-date join.
C3_AsClaimed ==
  pc = "join" =>
    \A i, j \in 1..Len(Concatenated) :
      (i # j /\ SameKey(Concatenated[i], Concatenated[j])) =>
        \A k \in 1..Len(df) : ~SameKey(df[k], Concatenated[i])

\* C3, amended: a key that occurs in more than one concatenated row whose
\* response passes the validation has no row in the normalized set handed to
\* the start-date join.
C3_DuplicateKeysRemoved ==
  pc = "join" =>
    \A i, j \in 1..Len(Concatenated) :
      ( /\ i # j
        /\ SameKey(Concatenated[i], Concatenated[j])
        /\ InVocabulary(Concatenated[i].response)
        /\ InVocabulary(Concatenated[j].response) ) =>
        \A k \in 1..Len(df) : ~SameKey(df[k], Concatenated[i])

\* Two valid rows with the same key were read and both were removed.
C3_Witness ==
  /\ pc = "join"
  /\ Len(Concatenated) = 2
  /\ SameKey(Concatenated[1], Concatenated[2])
  /\ InVocabulary(Concatenated[1].response)
  /\ InVocabulary(Concatenated[2].response)
  /\ Concatenated[1].response # Concatenated[2].response
  /\ df = <<>>
  /\ Len(LogEntries("Removing duplicate rows")) = 1

\* C4 as claimed: whatever subset of the data files fails to parse, all of
\* them included, the run goes on from the read loop to normalization; the
\* concatenation never ends it.
C4_ParseFailuresNeverAbort ==
  ~(pc = "aborted" /\ abort_at = "concat")

\* The display name configured for a canonical code; the keys of the
\* configuration are case-insensitive.
DisplayName(code) == config.response_names[Lower(code)]

\* C5 as claimed: every row written has, for every canonical code of the
\* vocabulary, Blank included, a column Total_<display name> that holds the
\* number of the subject's aligned records with that code, 0 if there is none.
C5_TotalPerCode ==
  pc = "done" =>
    \A r \in 1..Len(result) :
      \A code \in Range(response_map) :
        LET col == TotalName(DisplayName(code))
        IN /\ col \in DOMAIN result[r].totals
           /\ result[r].totals[col] =
                Cardinality({i \in 1..Len(df) :
                               /\ df[i].id = result[r].id
                               /\ df[i].response = code})

\* C6 as claimed: First_Response is the least day number of the subject's
\* aligned records; First_Yes is the least day number of those whose response
\* is the code the vocabulary gives for 'y', and is absent exactly when there
\* is none.
C6_FirstResponseAndYes ==
  pc = "done" =>
    \A r \in 1..Len(result) :
      LET all == {df[i].days : i \in {j \in 1..Len(df) :
                                        df[j].id = result[r].id}}
          yes == {df[i].days : i \in {j \in 1..Len(df) :
                                        /\ df[j].id = result[r].id
                                        /\ df[j].response =
                                             response_map[<<"y">>]}}
      IN /\ result[r].First_Response = <<SetMin(all)>>
         /\ result[r].First_Yes =
              IF yes = {} THEN NoNumber ELSE <<SetMin(yes)>>

\* C7 as claimed: the registry holds at most one entry per id (a later row
\* of the file replaces an earlier one), so after the join every normalized
\* record stands once, against one start date.
C7_AsClaimed ==
  /\ IndexIsUnique(date_map)
  /\ pc = "window" => \A i, j \in 1..Len(df) : SameKey(df[i], df[j]) => i = j

\* The registry is the start-date file row by row, in the order of the file.
RegistryIsFile ==
  /\ Len(date_map) = Len(date_ones_csv.rows)
  /\ \A i \in 1..Len(date_map) :
       /\ date_map[i].id = date_ones_csv.rows[i].id
       /\ date_map[i].date_one = <<date_ones_csv.rows[i].date_one>>

\* C7, amended, as a step of the run: the registry keeps every row of the
\* start-date file, also rows that repeat an id (no row overwrites another),
\* and no later step changes it; the join against a registry that repeats an
\* id raises and ends the run with the records as they were; the join against
\* a registry without repeated id keeps every normalized record exactly once,
\* a record of a registered subject against the one start date of its
\* subject, and does not increase the number of records.
C7_Step ==
  /\ RegistryIsFile'
  /\ pc # "date_ones" => date_map' = date_map
  /\ (pc = "join" /\ ~IndexIsUnique(date_map)) =>
       /\ pc' = "aborted"
       /\ abort_at' = "join"
       /\ df' = df
       /\ result' = <<>>
  /\ (pc = "join" /\ IndexIsUnique(date_map)) =>
       /\ pc' = "window"
       /\ Len(df') <= Len(df)
       /\ \A i \in 1..Len(df) :
            LET copies == {k \in 1..Len(df') :
                             /\ SameKey(df'[k], df[i])
                             /\ df'[k].response = df[i].response
                             /\ df'[k].source_file = df[i].source_file}
            IN /\ Cardinality(copies) = 1
               /\ df[i].id \in RegisteredIds =>
                    \A k \in copies :
                      /\ df'[k].date_one # NaT
                      /\ Cardinality({r \in 1..Len(date_map) :
                                        /\ date_map[r].id = df[i].id
                                        /\ date_map[r].date_one =
                                             df'[k].date_one}) = 1

C7_RegistryKeepsEveryRow == [][C7_Step]_vars

\* A start-date file with two rows for one id, with different dates, was read:
\* both rows are in the registry and the join of a normalized record against
\* it has ended the run.
C7_Witness ==
  /\ pc = "aborted"
  /\ abort_at = "join"
  /\ df # <<>>
  /\ Len(date_ones_csv.rows) = 2
  /\ Len(date_map) = 2
  /\ date_map[1].id = date_map[2].id
  /\ date_map[1].date_one # date_map[2].date_one

\* C8: after the validation a row is left if and only if its response was
\* missing or its lower-cased, stripped response is a key of the vocabulary
\* (the blank key included); the rows left keep their order and carry the
\* canonical code of their response; the others are reported in one error.
C8_NormalizeIsHardFilter ==
  pc = "duplicates" =>
    LET kept == SelectIdx(Concatenated,
                          LAMBDA i : InVocabulary(Concatenated[i].response))
        bad == SelectIdx(Concatenated,
                         LAMBDA i : ~InVocabulary(Concatenated[i].response))
        errors == LogEntries("Removing invalid responses")
    IN /\ Len(df) = Len(kept)
       /\ \A k \in 1..Len(df) :
            df[k] = [kept[k] EXCEPT !.response = Canonical(@)]
       /\ Len(errors) = IF bad = <<>> THEN 0 ELSE 1
       /\ bad # <<>> =>
            /\ errors[1].level = "ERROR"
            /\ Len(errors[1].args) = Len(bad)
            /\ \A k \in 1..Len(bad) :
                 /\ errors[1].args[k].id = bad[k].id
                 /\ errors[1].args[k].date = bad[k].date
                 /\ errors[1].args[k].source_file = bad[k].source_file

\* " Y " under {y: Yes} became Yes, an empty cell became B and "x" was removed
\* and reported.
C8_Witness ==
  /\ pc = "duplicates"
  /\ \E i \in 1..Len(Concatenated) :
       Concatenated[i].response = <<" ", "Y", " ">>
  /\ \E i \in 1..Len(Concatenated) : Concatenated[i].response = <<"x">>
  /\ df # <<>>
  /\ \A i \in 1..Len(df) : df[i].response = <<"Y", "e", "s">>
  /\ Len(LogEntries("Removing invalid responses")) = 1

\* The ids named by the warning about missing start dates.
WarnedIds ==
  LET w == LogEntries("Missing start dates for ids")
  IN IF w = <<>> THEN {} ELSE Range(w[1].args)

\* C9 as claimed: the subjects with a normalized record and no registry entry
\* are named, all of them, in one warning; none of their records passes the
\* window filter and none of them has a row in the output; the records of
\* registered subjects are aligned; and the run is not aborted: once the
\* warning is logged the run goes on to the write.
C9_MissingStartDates ==
  /\ Len(LogEntries("Missing start dates for ids")) <= 1
  /\ \A i \in 1..Len(log) :
       log[i].msg = "Missing start dates for ids" => log[i].level = "WARNING"
  /\ pc = "window" =>
       /\ WarnedIds = {df[i].id : i \in 1..Len(df)} \ RegisteredIds
       /\ (WarnedIds # {}) = (LogEntries("Missing start dates for ids") # <<>>)
       /\ \A i \in 1..Len(df) :
            df[i].id \in RegisteredIds => df[i].date_one # NaT
  /\ pc \in {"pivot", "done", "aborted"} =>
       \A i \in 1..Len(df) : df[i].id \notin WarnedIds
  /\ \A r \in 1..Len(result) : result[r].id \notin WarnedIds
  /\ WarnedIds # {} => pc # "aborted"

NoPivotCollision ==
  \A i, j \in 1..Len(df) :
    (df[i].id = df[j].id /\ df[i].pivot = df[j].pivot) => i = j

\* C10: with at most one registry entry per id no two aligned records share
\* (id, Day label), so the pivot does not reject the run; a collision ends
\* the run at the pivot with nothing written, and in a table that is written
\* every aligned record's response stands in its cell.
C10_PivotCollisionFree ==
  /\ (pc = "pivot" /\ IndexIsUnique(date_map)) => NoPivotCollision
  /\ abort_at = "pivot" =>
       /\ ~NoPivotCollision
       /\ ~IndexIsUnique(date_map)
       /\ result = <<>>
  /\ pc = "done" =>
       /\ NoPivotCollision
       /\ \A i \in 1..Len(df) :
            \E r \in 1..Len(result) :
              /\ result[r].id = df[i].id
              /\ result[r].cells[df[i].pivot] = df[i].response

\* Two records of one subject, aligned against its only start date, stand on
\* different days.
C10_Witness ==
  /\ pc = "pivot"
  /\ IndexIsUnique(date_map)
  /\ Len(df) = 2
  /\ df[1].id = df[2].id
  /\ df[1].pivot # df[2].pivot

====
